---- MODULE Spec2Model ----
(***************************************************************************)
(* Model of src/src/address_space.rs: one AddressSpace whose mappings list *)
(* is changed by add_mapping, add_mapping_at and remove_mapping, and which *)
(* its owner finally drops.                                                *)
(*                                                                         *)
(* usize is 64 bits wide on the targets of the crate.  TLC's integers are  *)
(* 32 bits wide, so usize is modelled at width USIZE_BITS; every address   *)
(* and span of the model stays far below 2^USIZE_BITS, so each comparison  *)
(* of the scans has the outcome it has at width 64.                        *)
(***************************************************************************)
EXTENDS Integers, Sequences, FiniteSets, TLC

VARIABLES
    mappings,         \* AddressSpace::mappings, in list order
    overflow_checks,  \* the build panics on usize overflow (else it wraps)
    last,             \* the latest completed call
    release_calls,    \* number of release notifications sent to DataSources
    inflight          \* per caller: the call it is in the middle of

vars == <<mappings, overflow_checks, last, release_calls, inflight>>

(* ------------------------------ bounds --------------------------------- *)

MaxEntries == 4
MaxSpan == 2
MaxStart == 2
MaxOffset == 0
ShortEntries == 3

(* --------------------------- integer helpers --------------------------- *)

USIZE_BITS == 30

USIZE_MOD == 2 ^ USIZE_BITS

\* the value a panicking computation yields in place of a usize
PANIC == -1

\* a ^ b of Rust: bitwise exclusive or
RECURSIVE BitXor(_, _)
BitXor(a, b) ==
    IF a = 0 /\ b = 0 THEN 0
    ELSE (((a % 2) + (b % 2)) % 2) + 2 * BitXor(a \div 2, b \div 2)

\* the expression `2 ^ 39 - 1`: binary minus binds tighter than ^
END_FREE == BitXor(2, 39 - 1)

\* a - b on usize: panics when overflow checks are on, wraps otherwise
usize_sub(a, b, oc) ==
    IF a >= b THEN a - b
    ELSE IF oc THEN PANIC ELSE a - b + USIZE_MOD

\* a + b on usize: panics when overflow checks are on, wraps otherwise
usize_add(a, b, oc) ==
    IF a + b < USIZE_MOD THEN a + b
    ELSE IF oc THEN PANIC ELSE a + b - USIZE_MOD

(* ------------------------------- inputs -------------------------------- *)

Sources == {"A", "B"}
Offsets == 0 .. MaxOffset
Spans == (0 .. MaxSpan) \cup {END_FREE + 1}
Starts == (0 .. MaxStart) \cup {END_FREE + 1}

(* ------------------------------- results ------------------------------- *)

OK == "Ok"
\* Err("cannot fit data source in address space")
ERR_FIT_IN == "cannot fit data source in address space"
\* Err("cannot fit data source into address space")
ERR_FIT_INTO == "cannot fit data source into address space"
\* the call did not return: todo!() or an arithmetic overflow panic
PANICKED == "panic"

IsErr(r) == r \in {ERR_FIT_IN, ERR_FIT_INTO}

(* -------------------------------- state -------------------------------- *)

MapEntry(source, offset, span, addr) ==
    [source |-> source, offset |-> offset, span |-> span, addr |-> addr]

\* the record of the latest call: its arguments, its result and the
\* mappings it started from
Call(op, source, offset, span, start, result, addr, pre) ==
    [op |-> op, source |-> source, offset |-> offset, span |-> span,
     start |-> start, result |-> result, addr |-> addr, pre |-> pre]

\* the callers that hold a reference to the address space
Callers == {1, 2}

\* a caller that is in no call
IDLE == [phase |-> "idle"]

Init ==
    /\ mappings = <<>>
    /\ overflow_checks \in BOOLEAN
    /\ last = Call("new", "A", 0, 0, 0, OK, 0, <<>>)
    /\ release_calls = 0
    /\ inflight = [c \in Callers |-> IDLE]

\* the address space has not been dropped
Alive == last.op # "drop"

(* ----------------------------- add_mapping ----------------------------- *)

\* the loop of add_mapping from the entry at index i on; each pass takes
\* two entries off the iterator
RECURSIVE add_mapping_loop(_, _, _, _)
add_mapping_loop(m, span, i, oc) ==
    IF i > Len(m) THEN [result |-> ERR_FIT_IN, addr |-> 0]
    ELSE LET start_free == usize_add(m[i].addr, m[i].span, oc)
             end_free == IF i + 1 <= Len(m)
                         THEN usize_sub(m[i + 1].addr, 1, oc)
                         ELSE END_FREE
         IN  IF start_free = PANIC \/ end_free = PANIC
             THEN [result |-> PANICKED, addr |-> 0]
             ELSE LET room == usize_sub(end_free, start_free, oc)
                  IN  IF room = PANIC THEN [result |-> PANICKED, addr |-> 0]
                      ELSE IF room >= span
                           THEN [result |-> OK, addr |-> start_free]
                           ELSE add_mapping_loop(m, span, i + 2, oc)

add_mapping_result(m, span, oc) ==
    IF Len(m) = 0 THEN [result |-> OK, addr |-> 0]
    ELSE add_mapping_loop(m, span, 1, oc)

\* add_mapping with the list walked by pop_front: a successful call on a
\* non-empty list loses the first entry
add_mapping_pop_front(source, offset, span) ==
    /\ Alive
    /\ Len(mappings) < MaxEntries
    /\ LET r == add_mapping_result(mappings, span, overflow_checks)
           kept == IF Len(mappings) = 0 THEN mappings ELSE Tail(mappings)
       IN  /\ mappings' = IF r.result = OK
                          THEN Append(kept,
                                      MapEntry(source, offset, span, r.addr))
                          ELSE mappings
           /\ last' = Call("add_mapping", source, offset, span, 0,
                           r.result, r.addr, mappings)
    /\ UNCHANGED <<overflow_checks, release_calls, inflight>>

add_mapping(source, offset, span) ==
    /\ Alive
    /\ Len(mappings) < MaxEntries
    /\ LET r == add_mapping_result(mappings, span, overflow_checks)
       IN  /\ mappings' = IF r.result = OK
                          THEN Append(mappings,
                                      MapEntry(source, offset, span, r.addr))
                          ELSE mappings
           /\ last' = Call("add_mapping", source, offset, span, 0,
                           r.result, r.addr, mappings)
    /\ UNCHANGED <<overflow_checks, release_calls, inflight>>

(* ---------------------------- add_mapping_at --------------------------- *)

RECURSIVE add_mapping_at_loop(_, _, _, _, _)
add_mapping_at_loop(m, span, start, i, oc) ==
    IF i > Len(m) THEN [result |-> ERR_FIT_IN, addr |-> 0]
    ELSE LET start_free == usize_add(m[i].addr, m[i].span, oc)
             end_free == IF i + 1 <= Len(m)
                         THEN usize_sub(m[i + 1].addr, 1, oc)
                         ELSE END_FREE
         IN  IF start_free = PANIC \/ end_free = PANIC
             THEN [result |-> PANICKED, addr |-> 0]
             ELSE IF start_free <= start /\ start <= end_free
                  THEN LET top == usize_add(start, span, oc)
                       IN  IF top = PANIC
                           THEN [result |-> PANICKED, addr |-> 0]
                           ELSE IF top <= end_free
                                THEN [result |-> OK, addr |-> start_free]
                                ELSE [result |-> ERR_FIT_INTO, addr |-> 0]
                  ELSE add_mapping_at_loop(m, span, start, i + 2, oc)

add_mapping_at_result(m, span, start, oc) ==
    IF Len(m) = 0 THEN [result |-> OK, addr |-> start]
    ELSE add_mapping_at_loop(m, span, start, 1, oc)

\* add_mapping_at with the entry pushed before the scan has validated it
add_mapping_at_push_first(source, offset, span, start) ==
    /\ Alive
    /\ Len(mappings) < MaxEntries
    /\ LET r == add_mapping_at_result(mappings, span, start, overflow_checks)
       IN  /\ mappings' = Append(mappings,
                                 MapEntry(source, offset, span, start))
           /\ last' = Call("add_mapping_at", source, offset, span, start,
                           r.result, r.addr, mappings)
    /\ UNCHANGED <<overflow_checks, release_calls, inflight>>

add_mapping_at(source, offset, span, start) ==
    /\ Alive
    /\ Len(mappings) < MaxEntries
    /\ LET r == add_mapping_at_result(mappings, span, start, overflow_checks)
       IN  /\ mappings' = IF r.result = OK
                          THEN Append(mappings,
                                      MapEntry(source, offset, span, r.addr))
                          ELSE mappings
           /\ last' = Call("add_mapping_at", source, offset, span, start,
                           r.result, r.addr, mappings)
    /\ UNCHANGED <<overflow_checks, release_calls, inflight>>

(* ---------------------------- remove_mapping --------------------------- *)

\* the body is todo!(): every call panics and nothing is removed
remove_mapping(source, start) ==
    /\ Alive
    /\ mappings' = mappings
    /\ last' = Call("remove_mapping", source, 0, 0, start,
                    PANICKED, 0, mappings)
    /\ UNCHANGED <<overflow_checks, release_calls, inflight>>

(* --------------------------------- drop -------------------------------- *)

\* the owner discards the address space: there is no Drop impl, so the
\* drop glue frees the list and its entries and calls nothing on a DataSource
drop ==
    /\ Alive
    /\ mappings' = <<>>
    /\ last' = Call("drop", "A", 0, 0, 0, OK, 0, mappings)
    /\ UNCHANGED <<overflow_checks, release_calls, inflight>>

(* ---------------------------- specification ---------------------------- *)

Next ==
    \/ \E source \in Sources, offset \in Offsets, span \in Spans :
           add_mapping(source, offset, span)
    \/ \E source \in Sources, offset \in Offsets, span \in Spans,
          start \in Starts :
           add_mapping_at(source, offset, span, start)
    \/ \E source \in Sources, start \in Starts :
           remove_mapping(source, start)
    \/ drop

Spec == Init /\ [][Next]_vars

\* The calls made on a collection of fewer than ShortEntries entries, each
\* right after the call that produced the collection.  A call that fails or
\* panics leaves mappings as it found it, so skipping the calls that follow
\* such a call loses no state: ShortSpec reaches every state that Spec
\* reaches by a call on fewer than ShortEntries entries.
ShortNext ==
    /\ Len(mappings) < ShortEntries
    /\ last.op = "new" \/ mappings # last.pre
    /\ Next

ShortSpec == Init /\ [][ShortNext]_vars

\* ShortNext without the restriction to calls that follow a change
ShortNextAll == Len(mappings) < ShortEntries /\ Next

ShortSpecAll == Init /\ [][ShortNextAll]_vars

(* ----------------------------- two callers ----------------------------- *)

\* add_mapping and add_mapping_at take &self and hold no lock: a call is
\* a scan of the list followed by a push_back, and nothing keeps another
\* caller's step from falling between the two

\* the calls that have scanned and not yet pushed
Scanned == {c \in Callers : inflight[c].phase = "scanned"}

SCANNED(entry) == [phase |-> "scanned", entry |-> entry]

\* caller c runs add_mapping up to the construction of the entry
begin_add_mapping(c, source, offset, span) ==
    /\ Alive
    /\ inflight[c] = IDLE
    /\ Len(mappings) + Cardinality(Scanned) < ShortEntries
    /\ LET r == add_mapping_result(mappings, span, overflow_checks)
       IN  inflight' =
               IF r.result = OK
               THEN [inflight EXCEPT
                       ![c] = SCANNED(MapEntry(source, offset, span, r.addr))]
               ELSE inflight
    /\ UNCHANGED <<mappings, overflow_checks, last, release_calls>>

\* caller c runs add_mapping_at up to the construction of the entry
begin_add_mapping_at(c, source, offset, span, start) ==
    /\ Alive
    /\ inflight[c] = IDLE
    /\ Len(mappings) + Cardinality(Scanned) < ShortEntries
    /\ LET r == add_mapping_at_result(mappings, span, start, overflow_checks)
       IN  inflight' =
               IF r.result = OK
               THEN [inflight EXCEPT
                       ![c] = SCANNED(MapEntry(source, offset, span, r.addr))]
               ELSE inflight
    /\ UNCHANGED <<mappings, overflow_checks, last, release_calls>>

\* caller c pushes the entry it has built and returns
push_back(c) ==
    /\ inflight[c].phase = "scanned"
    /\ mappings' = Append(mappings, inflight[c].entry)
    /\ inflight' = [inflight EXCEPT ![c] = IDLE]
    /\ UNCHANGED <<overflow_checks, last, release_calls>>

ConcNext ==
    \E c \in Callers :
        \/ \E source \in Sources, offset \in Offsets, span \in Spans :
               begin_add_mapping(c, source, offset, span)
        \/ \E source \in Sources, offset \in Offsets, span \in Spans,
              start \in Starts :
               begin_add_mapping_at(c, source, offset, span, start)
        \/ push_back(c)

ConcSpec == Init /\ [][ConcNext]_vars

TypeOK ==
    /\ overflow_checks \in BOOLEAN
    /\ release_calls \in Nat
    /\ Len(mappings) <= MaxEntries
    /\ \A i \in 1 .. Len(mappings) :
           /\ mappings[i].source \in Sources
           /\ mappings[i].addr \in Nat
           /\ mappings[i].span \in Spans

(* ------------------------- terms of the claims ------------------------- *)

\* the upper bound of the address space, as the code computes it
LIMIT == END_FREE

Min(a, b) == IF a <= b THEN a ELSE b
Max(a, b) == IF a >= b THEN a ELSE b

\* [e1.addr, e1.addr+e1.span) and [e2.addr, e2.addr+e2.span) share an address
Intersects(e1, e2) ==
    Max(e1.addr, e2.addr) < Min(e1.addr + e1.span, e2.addr + e2.span)

\* [start, start+span) shares an address with an entry of m
IntersectsAny(m, start, span) ==
    \E i \in 1 .. Len(m) :
        Max(m[i].addr, start) < Min(m[i].addr + m[i].span, start + span)

NoOverlap(m) ==
    \A i, j \in 1 .. Len(m) : i # j => ~Intersects(m[i], m[j])

WithinLimit(m) == \A i \in 1 .. Len(m) : m[i].addr + m[i].span <= LIMIT

Sorted(m) == \A i \in 1 .. Len(m) - 1 : m[i].addr < m[i + 1].addr

PositiveSpans(m) == \A i \in 1 .. Len(m) : m[i].span > 0

\* a collection that satisfies every invariant of the data model
WellFormed(m) ==
    PositiveSpans(m) /\ Sorted(m) /\ NoOverlap(m) /\ WithinLimit(m)

\* the candidate gaps of m, numbered 0 .. Len(m): gap 0 lies before the
\* first entry, gap k after entry k
GapStart(m, k) == IF k = 0 THEN 0 ELSE m[k].addr + m[k].span
GapEnd(m, k) == IF k = Len(m) THEN LIMIT ELSE m[k + 1].addr
GapFits(m, k, span) == GapEnd(m, k) - GapStart(m, k) >= span
SomeGapFits(m, span) == \E k \in 0 .. Len(m) : GapFits(m, k, span)
FirstFit(m, span) ==
    GapStart(m, CHOOSE k \in 0 .. Len(m) :
                    /\ GapFits(m, k, span)
                    /\ \A h \in 0 .. k - 1 : ~GapFits(m, h, span))

\* m without its i-th entry
RemoveAt(m, i) == SubSeq(m, 1, i - 1) \o SubSeq(m, i + 1, Len(m))

\* the latest call is op and it started from a well-formed collection,
\* with a positive span
CalledOnWellFormed(op) ==
    last.op = op /\ WellFormed(last.pre) /\ last.span > 0

(* -------------------------------- claims ------------------------------- *)

\* C1: no two distinct entries of the address space have intersecting
\* ranges [addr, addr+span), after any sequence of calls (stated for the
\* collections whose spans are all positive, as the data model requires).
C1_NoOverlap == PositiveSpans(mappings) => NoOverlap(mappings)

\* C2: every entry satisfies addr + span <= LIMIT, entries inserted into an
\* empty address space included.
C2_WithinLimit == WithinLimit(mappings)

\* C3: the entry collection is sorted strictly ascending by addr after
\* every mutating operation (stated for the collections whose spans are
\* all positive, as the data model requires).
C3_Sorted == PositiveSpans(mappings) => Sorted(mappings)

\* C4: a successful add_mapping returns the start of the lowest-addressed
\* candidate gap whose size is >= span (the gap before the first entry, the
\* gaps between adjacent entries, the gap after the last entry).
C4_FirstFit ==
    (/\ CalledOnWellFormed("add_mapping")
     /\ last.result = OK
     /\ SomeGapFits(last.pre, last.span))
        => last.addr = FirstFit(last.pre, last.span)

\* C5: add_mapping fails exactly when no candidate gap has size >= span
\* (also when span > LIMIT on an empty address space), and a failed call
\* leaves the entry collection unchanged.
C5_NoSpaceIff ==
    CalledOnWellFormed("add_mapping")
        => /\ IsErr(last.result) <=> ~SomeGapFits(last.pre, last.span)
           /\ IsErr(last.result) => mappings = last.pre

\* C6: a successful add_mapping_at(source, offset, span, start) inserts the
\* entry (source, offset, span, addr = start).
C6_PlacedAtStart ==
    (CalledOnWellFormed("add_mapping_at") /\ last.result = OK)
        => \E i \in 1 .. Len(mappings) :
               /\ mappings[i] = MapEntry(last.source, last.offset,
                                         last.span, last.start)
               /\ RemoveAt(mappings, i) = last.pre

\* C7: add_mapping_at succeeds whenever start + span <= LIMIT and
\* [start, start+span) intersects no existing entry.
C7_FreeRangeAccepted ==
    (/\ CalledOnWellFormed("add_mapping_at")
     /\ last.start + last.span <= LIMIT
     /\ ~IntersectsAny(last.pre, last.start, last.span))
        => last.result = OK

\* C8: add_mapping_at fails whenever start + span <= LIMIT and
\* [start, start+span) intersects the range of any existing entry.
C8_OverlapRejected ==
    (/\ last.op = "add_mapping_at"
     /\ PositiveSpans(last.pre) /\ last.span > 0
     /\ last.start + last.span <= LIMIT
     /\ IntersectsAny(last.pre, last.start, last.span))
        => IsErr(last.result)

\* C9: add_mapping_at fails whenever start + span > LIMIT, in every state,
\* the empty address space included.
C9_OutOfRangeRejected ==
    (/\ CalledOnWellFormed("add_mapping_at")
     /\ last.start + last.span > LIMIT)
        => IsErr(last.result)

\* C10: remove_mapping(source, start) removes the entry whose addr is start
\* and whose source is the given one, and fails with an error, removing
\* nothing, when no entry matches on both fields.
C10_RemoveMatches ==
    last.op = "remove_mapping"
        => LET Match(i) == /\ last.pre[i].addr = last.start
                           /\ last.pre[i].source = last.source
           IN  IF \E i \in 1 .. Len(last.pre) : Match(i)
               THEN /\ last.result = OK
                    /\ \E i \in 1 .. Len(last.pre) :
                           Match(i) /\ mappings = RemoveAt(last.pre, i)
               ELSE IsErr(last.result) /\ mappings = last.pre

\* C11: a call of add_mapping, add_mapping_at or remove_mapping that returns
\* an error leaves the entry collection exactly as it was before the call.
C11_ErrorLeavesUnchanged ==
    (/\ last.op \in {"add_mapping", "add_mapping_at", "remove_mapping"}
     /\ IsErr(last.result))
        => mappings = last.pre

\* an add_mapping_at on a non-empty collection has returned an error
C11_Witness ==
    /\ last.op = "add_mapping_at"
    /\ IsErr(last.result)
    /\ Len(last.pre) > 0
    /\ mappings = last.pre

\* the entry of m that remove_mapping(source, start) is to remove
Matches(m, i, source, start) == m[i].addr = start /\ m[i].source = source

\* C12: after remove_mapping of an entry occupying [a, a+s) the range is
\* available again: a following add_mapping_at(_, _, s, a) succeeds, and
\* when a = 0 a following add_mapping with span <= s returns 0.
C12_RangeReusedAfterRemove ==
    [][\A i \in 1 .. Len(last.pre) :
         (/\ last.op = "remove_mapping"
          /\ WellFormed(last.pre)
          /\ Matches(last.pre, i, last.source, last.start))
            => /\ (/\ last'.op = "add_mapping_at"
                   /\ last'.start = last.start
                   /\ last'.span = last.pre[i].span)
                      => last'.result = OK
               /\ (/\ last'.op = "add_mapping"
                   /\ last.start = 0
                   /\ last'.span > 0
                   /\ last'.span <= last.pre[i].span)
                      => last'.result = OK /\ last'.addr = 0]_vars

\* m has no holes: its first entry starts at 0 and each entry starts where
\* the one before it ends
NoHoles(m) == \A k \in 0 .. Len(m) - 1 : GapStart(m, k) = GapEnd(m, k)

\* C13: add_mapping on an address space without holes (the empty one
\* included) places the region right after the last entry: the first call
\* returns 0, the next one the end of the first region, and so on.
C13_PlacedAfterPrevious ==
    (/\ CalledOnWellFormed("add_mapping")
     /\ NoHoles(last.pre)
     /\ GapStart(last.pre, Len(last.pre)) + last.span <= LIMIT)
        => /\ last.result = OK
           /\ last.addr = GapStart(last.pre, Len(last.pre))

\* C14: the release notification is issued exactly once for each entry that
\* leaves the collection (by remove_mapping or when the address space is
\* discarded) and never otherwise.
C14_ReleasedOncePerRemoval ==
    [][release_calls' =
          release_calls + Max(0, Len(mappings) - Len(mappings'))]_vars

\* C16: every call ends with a success or an error result; none panics.
C16_NoPanic ==
    last.op \in {"new", "add_mapping", "add_mapping_at", "remove_mapping"}
        => last.result = OK \/ IsErr(last.result)

\* the binary digits of n are exactly `bits` ones: n = 2^bits - 1
RECURSIVE IsAllOnes(_, _)
IsAllOnes(n, bits) ==
    IF bits = 0 THEN n = 0
    ELSE n % 2 = 1 /\ IsAllOnes(n \div 2, bits - 1)

\* C17: the upper bound the scans use for the gap after the last entry is
\* 2^39 - 1, so a region that ends at or below it fits behind a sole entry.
C17_LimitIsTwoPow39Minus1 ==
    /\ IsAllOnes(END_FREE, 39)
    /\ (/\ CalledOnWellFormed("add_mapping")
        /\ Len(last.pre) = 1)
           => last.result = OK

\* C20: in the scans of add_mapping and add_mapping_at the subtractions
\* second_entry.addr - 1 and end_free - start_free never go below zero
\* (stated for the first pass of the loop, which every call on a non-empty
\* collection makes).
C20_NoUnderflow ==
    (/\ last.op \in {"add_mapping", "add_mapping_at"}
     /\ Len(last.pre) > 0
     /\ PositiveSpans(last.pre))
        => LET m == last.pre
               start_free == m[1].addr + m[1].span
               end_free == IF Len(m) >= 2 THEN m[2].addr - 1 ELSE END_FREE
           IN  /\ end_free >= 0
               /\ last.op = "add_mapping" => end_free - start_free >= 0

\* C18: a successful add_mapping or add_mapping_at adds exactly one entry
\* and leaves every other entry and their order unchanged; a successful
\* remove_mapping removes exactly one entry and leaves the others and their
\* order unchanged; no other call adds or removes an entry.
C18_Frame ==
    last.op \in {"add_mapping", "add_mapping_at", "remove_mapping"}
        => IF last.result # OK THEN mappings = last.pre
           ELSE IF last.op = "remove_mapping"
           THEN \E i \in 1 .. Len(last.pre) :
                    mappings = RemoveAt(last.pre, i)
           ELSE \E i \in 1 .. Len(mappings) :
                    /\ RemoveAt(mappings, i) = last.pre
                    /\ mappings[i].source = last.source
                    /\ mappings[i].offset = last.offset
                    /\ mappings[i].span = last.span

\* a successful add_mapping on a collection of two entries
C18_Witness ==
    /\ last.op = "add_mapping"
    /\ last.result = OK
    /\ Len(last.pre) = 2
    /\ Len(mappings) = 3

\* C19: a mutating call holds exclusive access to the entry collection for
\* its whole duration: between the scan and the insertion of one call no
\* other call changes the collection.
C19_ExclusiveAccess ==
    [][\A c \in Callers :
         (inflight[c].phase = "scanned" /\ inflight'[c] = inflight[c])
            => mappings' = mappings]_vars

====
